---- MODULE Spec2Model ----
(***************************************************************************)
(* Model of the native multisig wallet program (src/src/processor/         *)
(* handler.rs, src/src/state.rs).  The ledger holds four kinds of program  *)
(* accounts (WalletConfig, WalletAuth, Proposal, VoteCount) and the token  *)
(* accounts of the SPL token program.  Every handler is one action; a      *)
(* handler that returns Err leaves the ledger as it was (the runtime rolls *)
(* a failed transaction back), and an account whose lamports reach zero is *)
(* purged by the runtime when the transaction commits.                     *)
(***************************************************************************)
EXTENDS Integers, Sequences, FiniteSets, TLC

\* ------------------------------------------------------------------------
\* Bounds of the model
\* ------------------------------------------------------------------------
\* total number of successful create_wallet calls in a behaviour
MaxWallets == 1
\* tokens initially held by the wallet's source token account
SrcFunds == 2

Ids == {"A", "B", "C"}
WalletKeys == {"W", "V"}
ProposalKeys == {"P1", "P2"}
TimePoints == {0, 601}

\* ------------------------------------------------------------------------
\* Program constants
\* ------------------------------------------------------------------------
MinLifetime == 600
MaxOwners == 255
BitmapBytes == 32
U8 == 256
PubkeyBytes == 32

\* ------------------------------------------------------------------------
\* Accounts
\* ------------------------------------------------------------------------
\* An address that holds no account: zero lamports, no data, owned by the
\* system program.
NoAccount == [lamports |-> 0]

Exists(acct) == acct.lamports > 0

\* account.owner == program_id: only accounts created by this program's
\* handlers are assigned to it, and they cease to exist once drained.
OwnedByProgram(acct) == Exists(acct)

\* try_from_slice_unchecked + is_initialized(): an address without data
\* does not deserialize.
IsInitialized(acct) == Exists(acct) /\ acct.is_initialized

\* a close that moves the lamports and leaves the record as it is
CloseAccountKeep(acct) == acct

\* is_initialized = false; lamports moved to the receiver
CloseAccount(acct) == [acct EXCEPT !.is_initialized = FALSE, !.lamports = 0]

\* the runtime drops every account left with zero lamports at commit
PurgeMap(f) == [k \in DOMAIN f |-> IF Exists(f[k]) THEN f[k] ELSE NoAccount]

Purge(L) == [wallet |-> PurgeMap(L.wallet), auth |-> PurgeMap(L.auth),
             proposal |-> PurgeMap(L.proposal),
             votecount |-> PurgeMap(L.votecount), token |-> L.token]

\* derived addresses
WalletAuthKey(w, id) == <<w, id>>
\* a vote record address derived from the proposal alone
VoteCountKeyShared(w, p) == <<"W", p>>

VoteCountKey(w, p) == <<w, p>>
Authority(w) == <<"authority", w>>

AuthKeys == WalletKeys \X Ids
VoteKeys == WalletKeys \X ProposalKeys

\* ------------------------------------------------------------------------
\* Bitmaps: 32 bytes, edited through their 8-character binary text
\* ------------------------------------------------------------------------
Pow2(k) == 2 ^ k

\* format!("{:08b}", byte): most significant bit first
Format08b(byte) == [k \in 1..8 |-> (byte \div Pow2(8 - k)) % 2]

\* u8::from_str_radix(str, 2)
RECURSIVE FromStrRadix2Upto(_, _)
FromStrRadix2Upto(str, k) ==
    IF k = 0 THEN 0 ELSE 2 * FromStrRadix2Upto(str, k - 1) + str[k]

FromStrRadix2(str) == FromStrRadix2Upto(str, 8)

\* str.replace_range(pos..pos + 1, c), pos counted from 0
ReplaceRange(str, pos, c) == [str EXCEPT ![pos + 1] = c]

\* str.get(pos..pos + 1)
CharAt(str, pos) == str[pos + 1]

ZeroBitmap == [i \in 0..(BitmapBytes - 1) |-> 0]

\* create_wallet: the bitmap of a wallet created with owner_count owners
\* the same bitmap written from the right end of each byte
InitialOwnerBitmapLsb(owner_count) ==
    LET last_owner_byte == (owner_count - 1) \div 8
        last_owner_pos == (owner_count - 1) % 8
        identity_str == [k \in 1..8 |-> IF 8 - k <= last_owner_pos THEN 1 ELSE 0]
    IN [i \in 0..(BitmapBytes - 1) |->
          IF i < last_owner_byte THEN 255
          ELSE IF i = last_owner_byte THEN FromStrRadix2(identity_str)
          ELSE 0]

InitialOwnerBitmap(owner_count) ==
    LET last_owner_byte == (owner_count - 1) \div 8
        last_owner_pos == (owner_count - 1) % 8
        identity_str == [k \in 1..8 |-> IF k - 1 <= last_owner_pos THEN 1 ELSE 0]
    IN [i \in 0..(BitmapBytes - 1) |->
          IF i < last_owner_byte THEN 255
          ELSE IF i = last_owner_byte THEN FromStrRadix2(identity_str)
          ELSE 0]

\* the same edit with the bit position counted from the right
ClearOwnerBitLsb(bitmap, owner_id) ==
    LET owner_byte_pos == owner_id \div 8
        owner_bit_pos == owner_id % 8
        owner_byte == Format08b(bitmap[owner_byte_pos])
    IN [bitmap EXCEPT ![owner_byte_pos] =
          FromStrRadix2(ReplaceRange(owner_byte, 7 - owner_bit_pos, 0))]

\* the edit that empties the whole byte of slot owner_id
ClearOwnerByte(bitmap, owner_id) == [bitmap EXCEPT ![owner_id \div 8] = 0]

\* give_up_ownership: clear the bit of slot owner_id
ClearOwnerBit(bitmap, owner_id) ==
    LET owner_byte_pos == owner_id \div 8
        owner_bit_pos == owner_id % 8
        owner_byte == Format08b(bitmap[owner_byte_pos])
    IN [bitmap EXCEPT ![owner_byte_pos] =
          FromStrRadix2(ReplaceRange(owner_byte, owner_bit_pos, 0))]

\* create_proposal: a vote record with only the bit of slot owner_id set
\* the same record with the bit position counted from the right
SeedVoteRecordLsb(owner_id) ==
    LET owner_byte_pos == owner_id \div 8
        owner_bit_pos == owner_id % 8
        owner_byte_str == [k \in 1..8 |-> IF 8 - k = owner_bit_pos THEN 1 ELSE 0]
    IN [ZeroBitmap EXCEPT ![owner_byte_pos] = FromStrRadix2(owner_byte_str)]

SeedVoteRecord(owner_id) ==
    LET owner_byte_pos == owner_id \div 8
        owner_bit_pos == owner_id % 8
        owner_byte_str == [k \in 1..8 |-> IF k - 1 = owner_bit_pos THEN 1 ELSE 0]
    IN [ZeroBitmap EXCEPT ![owner_byte_pos] = FromStrRadix2(owner_byte_str)]

\* a vote that never finds the caller's bit set
HasVotedNever(vote_record, owner_id) == FALSE

\* vote: has slot owner_id voted
HasVoted(vote_record, owner_id) ==
    CharAt(Format08b(vote_record[owner_id \div 8]), owner_id % 8) = 1

\* the same edit with the bit position counted from the right
SetVoteBitLsb(vote_record, owner_id) ==
    LET owner_byte_pos == owner_id \div 8
        owner_bit_pos == owner_id % 8
        owner_byte_str == Format08b(vote_record[owner_byte_pos])
    IN [vote_record EXCEPT ![owner_byte_pos] =
          FromStrRadix2(ReplaceRange(owner_byte_str, 7 - owner_bit_pos, 1))]

\* the edit made on an empty record: the bits of earlier voters are lost
SetVoteBitAlone(vote_record, owner_id) == SeedVoteRecord(owner_id)

\* vote: set the bit of slot owner_id
SetVoteBit(vote_record, owner_id) ==
    LET owner_byte_pos == owner_id \div 8
        owner_bit_pos == owner_id % 8
        owner_byte_str == Format08b(vote_record[owner_byte_pos])
    IN [vote_record EXCEPT ![owner_byte_pos] =
          FromStrRadix2(ReplaceRange(owner_byte_str, owner_bit_pos, 1))]

\* close_proposal/AddOwner: first byte below 255, 0 when there is none
RECURSIVE FirstFreeByteFrom(_, _)
FirstFreeByteFrom(bitmap, i) ==
    IF i >= BitmapBytes THEN 0
    ELSE IF bitmap[i] < 255 THEN i
    ELSE FirstFreeByteFrom(bitmap, i + 1)

FirstFreeByte(bitmap) == FirstFreeByteFrom(bitmap, 0)

\* close_proposal/AddOwner: position of the first '0' of the text, 8 if none
RECURSIVE FirstZeroCharFrom(_, _)
FirstZeroCharFrom(str, pos) ==
    IF pos >= 8 THEN 8
    ELSE IF CharAt(str, pos) = 0 THEN pos
    ELSE FirstZeroCharFrom(str, pos + 1)

\* the position a scan would give if the owners were packed to the left
FirstZeroCharPacked(str) == Cardinality({k \in 1..8 : str[k] = 1})

\* the position of the last '0' of the text, 8 if none
LastZeroChar(str) ==
    IF \A k \in 1..8 : str[k] = 1 THEN 8
    ELSE (CHOOSE k \in 1..8 : str[k] = 0 /\ \A j \in (k + 1)..8 : str[j] = 1) - 1

FirstZeroChar(str) == FirstZeroCharFrom(str, 0)

\* ------------------------------------------------------------------------
\* Fixed-width arithmetic.  An overflowing u8 operation either wraps or
\* panics, depending on the overflow-checks setting of the build; ovf names
\* the outcome ("wrap" or "panic").
\* ------------------------------------------------------------------------
MulU8(a, b, ovf) ==
    IF a * b < U8 THEN [ok |-> TRUE, v |-> a * b]
    ELSE IF ovf = "wrap" THEN [ok |-> TRUE, v |-> (a * b) % U8]
    ELSE [ok |-> FALSE, v |-> 0]

AddU8(a, b, ovf) ==
    IF a + b < U8 THEN [ok |-> TRUE, v |-> a + b]
    ELSE IF ovf = "wrap" THEN [ok |-> TRUE, v |-> (a + b) % U8]
    ELSE [ok |-> FALSE, v |-> 0]

\* ------------------------------------------------------------------------
\* Records (state.rs); added_time is written and never read, and is left out
\* ------------------------------------------------------------------------
WalletConfig(m, n, owners, owner_identities, proposal_lifetime) ==
    [lamports |-> 1, m |-> m, n |-> n, owners |-> owners,
     owner_identities |-> owner_identities,
     proposal_lifetime |-> proposal_lifetime, is_initialized |-> TRUE]

\* a WalletAuth that is given slot 0 whatever slot was chosen for it
WalletAuthSlotZero(owner, w, id) ==
    [lamports |-> 1, owner |-> owner, wallet |-> w, id |-> 0,
     is_initialized |-> TRUE]

WalletAuth(owner, w, id) ==
    [lamports |-> 1, owner |-> owner, wallet |-> w, id |-> id,
     is_initialized |-> TRUE]

Proposal(w, proposer, payload) ==
    [lamports |-> 1, wallet |-> w, proposer |-> proposer,
     proposal |-> payload, is_initialized |-> TRUE]

VoteCount(proposed_time, votes, vote_record) ==
    [lamports |-> 1, proposed_time |-> proposed_time, votes |-> votes,
     vote_record |-> vote_record, is_initialized |-> TRUE]

\* ProposalType
Transfer(token_mint, receive_account, amount) ==
    [type |-> "Transfer", token_mint |-> token_mint,
     receive_account |-> receive_account, amount |-> amount]

AddOwner(user) == [type |-> "AddOwner", user |-> user]

ChangeProposalLifetime(duration) ==
    [type |-> "ChangeProposalLifetime", duration |-> duration]

\* ------------------------------------------------------------------------
\* State
\* ------------------------------------------------------------------------
\* wallet, auth, proposal, votecount: the program's accounts by address;
\* token: the token accounts; now: the ledger clock.
\* cast[p][id]: how many times id's vote was counted on the open proposal p;
\* closed: the proposals on which a close_proposal has succeeded;
\* lifetimeOf[w]: the proposal_lifetime last persisted for w;
\* nProposals, nWallets: proposals and wallets created so far;
\* last: the last transaction and its outcome;
\* env: the transactions the environment submits, fixed for a behaviour.
VARIABLES wallet, auth, proposal, votecount, token, now,
          cast, closed, lifetimeOf, nProposals, nWallets, last, env

vars == <<wallet, auth, proposal, votecount, token, now,
          cast, closed, lifetimeOf, nProposals, nWallets, last, env>>

Ledger == [wallet |-> wallet, auth |-> auth, proposal |-> proposal,
           votecount |-> votecount, token |-> token]

\* outcome of a handler: the result, the ledger as the handler left it, the
\* payload it applied and the lamports it refunded
Fail(L, e) == [res |-> e, L |-> L, applied |-> "none", refund |-> 0]
Done(L, applied, refund) ==
    [res |-> "Ok", L |-> L, applied |-> applied, refund |-> refund]

\* ------------------------------------------------------------------------
\* External collaborators
\* ------------------------------------------------------------------------
\* spl-token Transfer signed by authority
TokenTransfer(T, source, destination, authority, amount) ==
    IF source \notin DOMAIN T \/ destination \notin DOMAIN T
    THEN [res |-> "InvalidAccountData", token |-> T]
    ELSE IF T[source].amount < amount
    THEN [res |-> "TokenInsufficientFunds", token |-> T]
    ELSE IF T[source].mint # T[destination].mint
    THEN [res |-> "TokenMintMismatch", token |-> T]
    ELSE IF T[source].owner # authority
    THEN [res |-> "TokenOwnerMismatch", token |-> T]
    ELSE IF source = destination
    THEN [res |-> "Ok", token |-> T]
    ELSE [res |-> "Ok",
          token |-> [T EXCEPT ![source].amount = @ - amount,
                              ![destination].amount = @ + amount]]

\* ------------------------------------------------------------------------
\* create_wallet
\* ------------------------------------------------------------------------
\* the minimum itself is refused
TooShortOrEqual(duration) == duration <= MinLifetime

\* no lower bound on the lifetime
TooShortNever(duration) == FALSE

\* proposal_lifetime < 600, duration < 600
TooShort(duration) == duration < MinLifetime

\* the loop over the other owners: owners[i] gets slot i
RECURSIVE CreateOtherAuths(_, _, _, _, _)
CreateOtherAuths(A, w, owners, accts, i) ==
    IF i > Len(owners) THEN [res |-> "Ok", auth |-> A]
    ELSE IF accts[i] # WalletAuthKey(w, owners[i])
    THEN [res |-> "InvalidWalletAuth", auth |-> A]
    ELSE IF Exists(A[accts[i]])
    THEN [res |-> "AccountAlreadyInUse", auth |-> A]
    ELSE CreateOtherAuths([A EXCEPT ![accts[i]] = WalletAuth(owners[i], w, i)],
                          w, owners, accts, i + 1)

\* only m = 0 is refused
InvalidParametersZeroOnly(m, n) == m = 0

\* m == 0 || m > n
InvalidParameters(m, n) == m = 0 \/ m > n

\* signers: the identities and keypairs that signed the transaction;
\* wallet_auth: the address passed as the caller's WalletAuth;
\* accts: the addresses passed after the system program
create_wallet(L, signers, user, w, wallet_auth, accts, m, n, owners, proposal_lifetime) ==
    IF InvalidParameters(m, n) THEN Fail(L, "InvalidWalletParameters")
    ELSE IF TooShort(proposal_lifetime) THEN Fail(L, "TooShortLifetime")
    ELSE IF user \notin signers \/ w \notin signers
    THEN Fail(L, "MissingRequiredSignature")
    ELSE IF wallet_auth # WalletAuthKey(w, user) THEN Fail(L, "InvalidWalletAuth")
    ELSE IF Len(owners) # Len(accts) THEN Fail(L, "OwnerWalletAuthCountMismatch")
    ELSE IF Exists(L.auth[wallet_auth]) THEN Fail(L, "AccountAlreadyInUse")
    ELSE
      LET A1 == [L.auth EXCEPT ![wallet_auth] = WalletAuth(user, w, 0)]
          others == CreateOtherAuths(A1, w, owners, accts, 1)
          L1 == [L EXCEPT !.auth = others.auth]
          owner_count == 1 + Len(owners)
      IN IF others.res # "Ok" THEN Fail(L1, others.res)
         ELSE IF Exists(L.wallet[w]) THEN Fail(L1, "AccountAlreadyInUse")
         ELSE IF owner_count >= U8 THEN Fail(L1, "Panic")
         ELSE Done([L1 EXCEPT !.wallet[w] =
                      WalletConfig(m, n, owner_count,
                                   InitialOwnerBitmap(owner_count),
                                   proposal_lifetime)],
                   "none", 0)

\* ------------------------------------------------------------------------
\* give_up_ownership
\* ------------------------------------------------------------------------
\* the liquidation loop over the (send, receive) pairs that follow the token
\* program; a trailing unpaired account is NotEnoughAccountKeys
RECURSIVE Sweep(_, _, _, _)
Sweep(T, rest, i, authority) ==
    IF i > Len(rest) THEN [res |-> "Ok", token |-> T]
    ELSE IF i + 1 > Len(rest) THEN [res |-> "NotEnoughAccountKeys", token |-> T]
    ELSE IF rest[i] \notin DOMAIN T THEN [res |-> "InvalidAccountData", token |-> T]
    ELSE LET t == TokenTransfer(T, rest[i], rest[i + 1], authority,
                                T[rest[i]].amount)
         IN IF t.res # "Ok" THEN t
            ELSE Sweep(t.token, rest, i + 2, authority)

\* nAccounts: accounts.iter().len(), the number of accounts of the call;
\* rest: the accounts after the caller's WalletAuth, rest[1] the wallet
\* authority, rest[2] the token program, then the pairs
give_up_ownership(L, signers, user, w, wallet_auth, rest) ==
    LET nAccounts == 3 + Len(rest) IN
    IF user \notin signers THEN Fail(L, "MissingRequiredSignature")
    ELSE IF ~OwnedByProgram(L.wallet[w]) THEN Fail(L, "IllegalOwner")
    ELSE IF ~IsInitialized(L.wallet[w]) THEN Fail(L, "UninitializedAccount")
    ELSE IF wallet_auth # WalletAuthKey(w, user) THEN Fail(L, "InvalidWalletAuth")
    ELSE IF ~IsInitialized(L.auth[wallet_auth]) THEN Fail(L, "UninitializedAccount")
    ELSE
      LET wallet_details == L.wallet[w]
          user_details == L.auth[wallet_auth]
          r1 == user_details.lamports
          L1 == [L EXCEPT !.auth[wallet_auth] = CloseAccount(@)]
      IN IF wallet_details.owners = 1
         THEN LET r2 == wallet_details.lamports
                  L2 == [L1 EXCEPT !.wallet[w] = CloseAccount(@)]
              IN IF nAccounts = 0 THEN Done(L2, "none", r1 + r2)
                 ELSE IF Len(rest) < 2 THEN Fail(L2, "NotEnoughAccountKeys")
                 ELSE IF rest[1] # Authority(w)
                 THEN Fail(L2, "InvalidWalletAuthority")
                 ELSE IF rest[2] # "token_program"
                 THEN Fail(L2, "IncorrectProgramId")
                 ELSE LET s == Sweep(L2.token, rest, 3, Authority(w))
                      IN IF s.res # "Ok" THEN Fail(L2, s.res)
                         ELSE Done([L2 EXCEPT !.token = s.token],
                                   IF s.token # L.token THEN "Sweep" ELSE "none",
                                   r1 + r2)
         ELSE Done([L1 EXCEPT !.wallet[w] =
                      [wallet_details EXCEPT
                         !.owner_identities =
                             ClearOwnerBit(@, user_details.id),
                         !.owners = @ - 1]],
                   "none", r1)

\* ------------------------------------------------------------------------
\* create_proposal
\* ------------------------------------------------------------------------
create_proposal(L, signers, user, w, wallet_auth, p, vote_count, new_proposal, clock) ==
    IF user \notin signers THEN Fail(L, "MissingRequiredSignature")
    ELSE IF ~OwnedByProgram(L.wallet[w]) THEN Fail(L, "IllegalOwner")
    ELSE IF ~OwnedByProgram(L.auth[wallet_auth]) THEN Fail(L, "IllegalOwner")
    ELSE IF wallet_auth # WalletAuthKey(w, user) THEN Fail(L, "InvalidWalletAuth")
    ELSE IF p \notin signers THEN Fail(L, "MissingRequiredSignature")
    ELSE IF vote_count # VoteCountKey(w, p) THEN Fail(L, "InvalidVoteCount")
    ELSE IF new_proposal.type = "ChangeProposalLifetime"
            /\ TooShort(new_proposal.duration)
    THEN Fail(L, "TooShortLifetime")
    ELSE IF Exists(L.proposal[p]) THEN Fail(L, "AccountAlreadyInUse")
    ELSE
      LET L1 == [L EXCEPT !.proposal[p] = Proposal(w, user, new_proposal)]
          user_details == L.auth[wallet_auth]
      IN IF Exists(L.votecount[vote_count]) THEN Fail(L1, "AccountAlreadyInUse")
         ELSE IF ~IsInitialized(user_details) THEN Fail(L1, "UninitializedAccount")
         ELSE Done([L1 EXCEPT !.votecount[vote_count] =
                      VoteCount(clock, 1, SeedVoteRecord(user_details.id))],
                   "none", 0)

\* ------------------------------------------------------------------------
\* vote
\* ------------------------------------------------------------------------
\* Clock::get()?.unix_timestamp > proposed_time + lifetime (i64; the times of
\* the model stay far below the i64 range)
\* a proposal counted as expired from its deadline on
ExpiredAtDeadline(clock, proposed_time, lifetime) == clock >= proposed_time + lifetime

Expired(clock, proposed_time, lifetime) == clock > proposed_time + lifetime

vote(L, signers, user, w, wallet_auth, p, vote_count, clock, ovf) ==
    IF user \notin signers THEN Fail(L, "MissingRequiredSignature")
    ELSE IF ~OwnedByProgram(L.wallet[w]) THEN Fail(L, "IllegalOwner")
    ELSE IF wallet_auth # WalletAuthKey(w, user) THEN Fail(L, "InvalidWalletAuth")
    ELSE IF ~OwnedByProgram(L.proposal[p]) THEN Fail(L, "IllegalOwner")
    ELSE IF vote_count # VoteCountKey(w, p) THEN Fail(L, "InvalidVoteCount")
    ELSE IF ~IsInitialized(L.wallet[w]) THEN Fail(L, "UninitializedAccount")
    ELSE IF ~IsInitialized(L.votecount[vote_count])
    THEN Fail(L, "UninitializedAccount")
    ELSE
      LET lifetime == L.wallet[w].proposal_lifetime
          voting_details == L.votecount[vote_count]
          user_details == L.auth[wallet_auth]
      IN IF Expired(clock, voting_details.proposed_time, lifetime)
         THEN Fail(L, "ProposalExpired")
         ELSE IF ~IsInitialized(user_details) THEN Fail(L, "UninitializedAccount")
         ELSE IF HasVoted(voting_details.vote_record, user_details.id)
         THEN Fail(L, "AlreadyVoted")
         ELSE LET votes == AddU8(voting_details.votes, 1, ovf)
              IN IF ~votes.ok THEN Fail(L, "Panic")
                 ELSE Done([L EXCEPT !.votecount[vote_count] =
                              [voting_details EXCEPT
                                 !.vote_record =
                                     SetVoteBit(@, user_details.id),
                                 !.votes = votes.v]],
                           "none", 0)

\* ------------------------------------------------------------------------
\* close_proposal
\* ------------------------------------------------------------------------
\* no comparison of the votes with the threshold
QuorumAlways(votes, owners, m, n, ovf) == [ok |-> TRUE, met |-> TRUE]

\* a threshold taken from the configured n owners, not from those left
ThresholdOfAll(owners, m, n, ovf) == [ok |-> TRUE, v |-> m]

\* wallet_details.owners * wallet_details.m / wallet_details.n, on u8
\* values: the product is formed first
Threshold(owners, m, n, ovf) ==
    LET product == MulU8(owners, m, ovf)
    IN IF ~product.ok THEN [ok |-> FALSE, v |-> 0]
       ELSE [ok |-> TRUE, v |-> product.v \div n]

\* voting_details.votes < wallet_details.owners * wallet_details.m
\*                        / wallet_details.n, on u8 values
Quorum(votes, owners, m, n, ovf) ==
    LET threshold == Threshold(owners, m, n, ovf)
    IN IF ~threshold.ok THEN [ok |-> FALSE, met |-> FALSE]
       ELSE [ok |-> TRUE, met |-> ~(votes < threshold.v)]

\* source_account_details.amount < amount
InsufficientFunds(balance, amount) == balance < amount

\* Transfer: rest = [kind, source, destination, wallet_authority,
\* token_program]
execute_transfer(L, w, payload, rest) ==
    IF rest.kind # "Transfer" THEN Fail(L, "NotEnoughAccountKeys")
    ELSE IF rest.source \notin DOMAIN L.token THEN Fail(L, "InvalidAccountData")
    ELSE
      LET source_account_details == L.token[rest.source]
      IN IF source_account_details.mint # payload.token_mint
            \/ source_account_details.owner # rest.wallet_authority
         THEN Fail(L, "IncorrectSendAccount")
         ELSE IF InsufficientFunds(source_account_details.amount, payload.amount)
         THEN Fail(L, "InsufficientFunds")
         ELSE IF rest.destination # payload.receive_account
         THEN Fail(L, "IncorrectReceiveAccount")
         ELSE IF rest.wallet_authority # Authority(w)
         THEN Fail(L, "InvalidWalletAuthority")
         ELSE IF rest.token_program # "token_program"
         THEN Fail(L, "IncorrectProgramId")
         ELSE LET t == TokenTransfer(L.token, rest.source, rest.destination,
                                     rest.wallet_authority, payload.amount)
              IN IF t.res # "Ok" THEN Fail(L, t.res)
                 ELSE Done([L EXCEPT !.token = t.token], "Transfer", 0)

\* AddOwner: rest = [kind, payer, wallet_auth, system_program]
execute_add_owner(L, signers, w, payload, rest, ovf) ==
    IF rest.kind # "AddOwner" THEN Fail(L, "NotEnoughAccountKeys")
    ELSE IF rest.payer \notin signers THEN Fail(L, "MissingRequiredSignature")
    ELSE IF rest.wallet_auth # WalletAuthKey(w, payload.user)
    THEN Fail(L, "InvalidWalletAuth")
    ELSE IF rest.system_program # "system_program"
    THEN Fail(L, "IncorrectProgramId")
    ELSE
      LET wallet_details == L.wallet[w]
      IN IF wallet_details.owners = MaxOwners
         THEN Fail(L, "MaximumOwnersReached")
         ELSE
           LET byte_pos == FirstFreeByte(wallet_details.owner_identities)
               byte_str == Format08b(wallet_details.owner_identities[byte_pos])
               bit_pos == FirstZeroChar(byte_str)
               owners == AddU8(wallet_details.owners, 1, ovf)
           IN IF bit_pos >= 8 \/ ~owners.ok THEN Fail(L, "Panic")
              ELSE
                LET L1 == [L EXCEPT !.wallet[w] =
                             [wallet_details EXCEPT
                                !.owner_identities[byte_pos] =
                                    FromStrRadix2(ReplaceRange(byte_str, bit_pos, 1)),
                                !.owners = owners.v]]
                IN IF Exists(L.auth[rest.wallet_auth])
                   THEN Fail(L1, "AccountAlreadyInUse")
                   ELSE Done([L1 EXCEPT !.auth[rest.wallet_auth] =
                                WalletAuth(payload.user, w,
                                           byte_pos * 8 + bit_pos)],
                             "AddOwner", 0)

\* a lifetime change that records the execution and keeps the lifetime
execute_change_lifetime_kept(L, w, payload) ==
    Done(L, "ChangeProposalLifetime", 0)

execute_change_lifetime(L, w, payload) ==
    Done([L EXCEPT !.wallet[w].proposal_lifetime = payload.duration],
         "ChangeProposalLifetime", 0)

\* proposer: the address passed as the first account
close_proposal(L, signers, proposer, w, p, vote_count, rest, clock, ovf) ==
    IF ~OwnedByProgram(L.wallet[w]) THEN Fail(L, "IllegalOwner")
    ELSE IF ~OwnedByProgram(L.proposal[p]) THEN Fail(L, "IllegalOwner")
    ELSE IF ~IsInitialized(L.proposal[p]) THEN Fail(L, "UninitializedAccount")
    ELSE IF proposer # L.proposal[p].proposer THEN Fail(L, "IncorrectProposer")
    ELSE IF vote_count # VoteCountKey(w, p) THEN Fail(L, "InvalidVoteCount")
    ELSE
      LET proposal_details == L.proposal[p]
          r1 == proposal_details.lamports
          L1 == [L EXCEPT !.proposal[p] = CloseAccount(@)]
          voting_details == L.votecount[vote_count]
      IN IF ~IsInitialized(voting_details) THEN Fail(L1, "UninitializedAccount")
         ELSE
           LET r2 == voting_details.lamports
               L2 == [L1 EXCEPT !.votecount[vote_count] = CloseAccount(@)]
               wallet_details == L.wallet[w]
           IN IF ~IsInitialized(wallet_details)
              THEN Fail(L2, "UninitializedAccount")
              ELSE IF Expired(clock, voting_details.proposed_time,
                              wallet_details.proposal_lifetime)
              THEN Done(L2, "none", r1 + r2)
              ELSE
                LET q == Quorum(voting_details.votes, wallet_details.owners,
                                wallet_details.m, wallet_details.n, ovf)
                    payload == proposal_details.proposal
                    x == CASE payload.type = "Transfer" ->
                                execute_transfer(L2, w, payload, rest)
                           [] payload.type = "AddOwner" ->
                                execute_add_owner(L2, signers, w, payload, rest, ovf)
                           [] OTHER -> execute_change_lifetime(L2, w, payload)
                IN IF ~q.ok THEN Fail(L2, "Panic")
                   ELSE IF ~q.met THEN Fail(L2, "InsufficientVotes")
                   ELSE IF x.res # "Ok" THEN x
                   ELSE Done(x.L, x.applied, r1 + r2)

\* ------------------------------------------------------------------------
\* Inputs of the model
\* ------------------------------------------------------------------------
\* (m, n) of create_wallet: a rejected m = 0, a rejected m > n, a wallet
\* that may hold fewer owners than n, and one whose owners * m leaves u8
Thresholds == {<<0, 1>>, <<2, 1>>, <<2, 3>>, <<100, 100>>}
\* the other owners of create_wallet: none, two, and one identity twice
OwnerLists == {<<>>, <<"B", "C">>, <<"B", "B">>}
\* the wallets asked for, <<(m, n), other owners>>: every (m, n) with two
\* other owners
Wallets == Thresholds \X {<<"B", "C">>}
\* every list of other owners, with the (m, n) whose owners * m stays in u8
WalletsByOwners == (Thresholds \ {<<100, 100>>}) \X OwnerLists
\* the WalletAuth addresses passed for them
AuthLists(w) == {<<>>, <<WalletAuthKey(w, "B"), WalletAuthKey(w, "C")>>, <<WalletAuthKey(w, "B"), WalletAuthKey(w, "B")>>}
Lifetimes == {MinLifetime - 1, MinLifetime}
NewLifetime == MinLifetime + 1
Durations == {MinLifetime - 1, NewLifetime}
Mint == "M"
External == <<"external", "X">>
Payloads ==
    {Transfer(Mint, "dst", 1), AddOwner("B")}
    \cup {ChangeProposalLifetime(d) : d \in Durations}
\* the token account holding the funds of wallet w
Holding(w) == IF w = "W" THEN "src" ELSE "srcV"
GiveUpRests(w) == {<<>>, <<Authority(w), "token_program">>, <<Authority(w), "token_program", Holding(w), "dst">>}
\* the accounts a close_proposal passes for a payload of wallet w
CloseRestsOf(w) ==
    {[kind |-> "Transfer", source |-> Holding(w), destination |-> "dst",
      wallet_authority |-> Authority(w), token_program |-> "token_program"]}
    \cup {[kind |-> "AddOwner", payer |-> id,
           wallet_auth |-> WalletAuthKey(w, "B"),
           system_program |-> "system_program"] : id \in Ids}
CloseRests == {[kind |-> "none"]} \cup CloseRestsOf("W")
Overflow == {"wrap", "panic"}
\* proposal keypairs are fresh: the k-th proposal is created at KeyOrder[k]
KeyOrder == <<"P1", "P2">>

\* one proposal at a time, every input
EnvOne == [keys |-> 1, wallets |-> Wallets, payloads |-> Payloads,
           signed |-> BOOLEAN, probes |-> TRUE, rests |-> CloseRests,
           times |-> TimePoints, walletKeys |-> {"W"}, maxWallets |-> MaxWallets]

\* the same with wallets of one owner, of three, and of a repeated owner,
\* and a lifetime change to exactly the minimum
EnvLists == [EnvOne EXCEPT !.wallets = WalletsByOwners,
                           !.payloads = @ \cup {ChangeProposalLifetime(MinLifetime)}]

\* transfers only: one the wallet can pay and one of more than it holds
EnvFunds == [EnvOne EXCEPT !.payloads = {Transfer(Mint, "dst", 1),
                                         Transfer(Mint, "dst", SrcFunds + 1)}]

\* two proposals open together, on a 2-of-3 wallet, membership payloads,
\* signed transactions
EnvTwo == [keys |-> 2, wallets |-> {<<<<2, 3>>, <<"B", "C">>>>},
           payloads |-> {AddOwner("B")},
           signed |-> {TRUE}, probes |-> FALSE,
           rests |-> {r \in CloseRests : r.kind = "AddOwner"},
           times |-> TimePoints, walletKeys |-> {"W"}, maxWallets |-> MaxWallets]

\* two proposals open together on a 2-of-3 wallet of lifetime MinLifetime:
\* lifetime changes to MinLifetime + 1, made before or after the clock
\* passes the deadline of a proposal made at 0
EnvRaise == [EnvTwo EXCEPT !.payloads = {ChangeProposalLifetime(NewLifetime)},
                           !.rests = {r \in CloseRests : r.kind = "none"}]

\* the clock stops at the deadline of a proposal made at 0 and one second
\* later; one 2-of-3 wallet, a lifetime change and a transfer
Deadlines == {0, MinLifetime, MinLifetime + 1}
EnvTime == [EnvOne EXCEPT !.wallets = {<<<<2, 3>>, <<"B", "C">>>>},
                          !.payloads = {ChangeProposalLifetime(NewLifetime),
                                        Transfer(Mint, "dst", 1)},
                          !.times = Deadlines]

\* two wallet addresses, each able to hold a wallet at the same time: one of
\* A alone and one of A, B and C; every transaction may name either wallet
\* with the proposal and with either vote record
EnvApart == [EnvOne EXCEPT !.walletKeys = WalletKeys,
                           !.maxWallets = Cardinality(WalletKeys),
                           !.wallets = {<<<<2, 3>>, <<>>>>, <<<<2, 3>>, <<"B", "C">>>>},
                           !.payloads = {Transfer(Mint, "dst", 1),
                                         ChangeProposalLifetime(NewLifetime)},
                           !.signed = {TRUE},
                           !.probes = FALSE,
                           !.rests = {r \in CloseRestsOf("W") \cup CloseRestsOf("V") :
                                         r.kind = "Transfer"}]

\* ------------------------------------------------------------------------
\* Transactions
\* ------------------------------------------------------------------------
\* the ledger after the transaction: committed and purged on Ok, untouched
\* on Err
\* a ledger that keeps what a failed transaction wrote before it failed
CommittedAlways(out) == Purge(out.L)

Committed(out) == IF out.res = "Ok" THEN Purge(out.L) ELSE Ledger

NoVotes == [id \in Ids |-> 0]

\* the arguments of a create_wallet
WalletArgs(signers, m, n, owners, accts, proposal_lifetime) ==
    [signers |-> signers, m |-> m, n |-> n, owners |-> owners, accts |-> accts,
     proposal_lifetime |-> proposal_lifetime]

NoArgs == WalletArgs({}, 0, 0, <<>>, <<>>, 0)

\* the arguments of a create_proposal
ProposalArgs(signers, wallet_auth, new_proposal) ==
    [signers |-> signers, wallet_auth |-> wallet_auth,
     new_proposal |-> new_proposal]

NoProposalArgs == ProposalArgs({}, <<"-", "-">>, [type |-> "none"])

NoAccounts == [kind |-> "-"]

\* the accounts of a vote: whether user signed, the WalletAuth and the
\* VoteCount addresses passed
Ballot(signers, wallet_auth, vote_count) ==
    [signers |-> signers, wallet_auth |-> wallet_auth, vote_count |-> vote_count]

NoBallot == Ballot({}, <<"-", "-">>, <<"-", "-">>)

\* the close_proposal of p reaches a payload that takes accounts: the
\* records are active, the proposal is unexpired and is a Transfer or an
\* AddOwner
ReadsAccounts(w, p, vc) ==
    /\ IsInitialized(wallet[w]) /\ IsInitialized(proposal[p])
    /\ IsInitialized(votecount[vc])
    /\ ~Expired(now, votecount[vc].proposed_time, wallet[w].proposal_lifetime)
    /\ proposal[p].proposal.type \in {"Transfer", "AddOwner"}

\* what the last transaction was and how it ended; rest: the number of
\* accounts passed after the caller's WalletAuth to a give_up_ownership on
\* a wallet of one owner (the only branch that reads them);
\* args: the arguments of a create_wallet; prop: those of a create_proposal;
\* accounts: the accounts passed after the VoteCount to a close_proposal
\* whose payload reads them; ballot: the accounts of a vote or of a
\* give_up_ownership (which has no VoteCount)
Last(op, out, signer, user, w, p) ==
    [op |-> op, res |-> out.res, signer |-> signer, user |-> user, w |-> w,
     p |-> p, applied |-> out.applied, refund |-> out.refund, rest |-> 0,
     args |-> NoArgs, prop |-> NoProposalArgs, accounts |-> NoAccounts,
     ballot |-> NoBallot]

Commit(out) ==
    LET C == Committed(out)
    IN /\ wallet' = C.wallet
       /\ auth' = C.auth
       /\ proposal' = C.proposal
       /\ votecount' = C.votecount
       /\ token' = C.token
       /\ lifetimeOf' = [w \in WalletKeys |->
                           IF Exists(C.wallet[w])
                           THEN C.wallet[w].proposal_lifetime
                           ELSE lifetimeOf[w]]

\* the addresses passed for a derived account: the derived one and, when the
\* environment probes, one that is not
AuthProbes(w, user) ==
    {WalletAuthKey(w, user)}
    \cup (IF env.probes THEN {WalletAuthKey(w, "A")} ELSE {})

VoteProbes(w, p) ==
    {VoteCountKey(w, p)}
    \cup (IF env.probes THEN env.walletKeys \X ProposalKeys ELSE {})

\* A failed transaction changes nothing but `last': whatever can follow it
\* can follow the state it was submitted in.  The state after a failure is
\* therefore kept as an observation of that failure and not expanded again.
Ready == last.res = "Ok"

\* the proposal addresses a transaction can name: those of the keypairs
\* used so far and the next one
Created == {KeyOrder[i] : i \in 1..(IF nProposals < env.keys
                                   THEN nProposals + 1 ELSE env.keys)}

InitWith(e) ==
    /\ env = e
    /\ wallet = [w \in WalletKeys |-> NoAccount]
    /\ auth = [k \in AuthKeys |-> NoAccount]
    /\ proposal = [p \in ProposalKeys |-> NoAccount]
    /\ votecount = [k \in VoteKeys |-> NoAccount]
    /\ token = [t \in {"src", "srcV", "dst"} |->
                  IF t = "src"
                  THEN [mint |-> Mint, owner |-> Authority("W"), amount |-> SrcFunds]
                  ELSE IF t = "srcV"
                  THEN [mint |-> Mint, owner |-> Authority("V"), amount |-> SrcFunds]
                  ELSE [mint |-> Mint, owner |-> External, amount |-> 0]]
    /\ now = 0
    /\ cast = [p \in ProposalKeys |-> NoVotes]
    /\ closed = {}
    /\ lifetimeOf = [w \in WalletKeys |-> 0]
    /\ nProposals = 0
    /\ nWallets = 0
    /\ last = [op |-> "init", res |-> "Ok", signer |-> "-", user |-> "-",
               w |-> "-", p |-> "-", applied |-> "none", refund |-> 0, rest |-> 0,
               args |-> NoArgs, prop |-> NoProposalArgs, accounts |-> NoAccounts,
               ballot |-> NoBallot]

CreateWallet ==
    /\ Ready
    /\ \E user \in {"A"}, userSigned \in env.signed, w \in env.walletKeys,
            walletSigned \in env.signed,
            req \in env.wallets, life \in Lifetimes :
          \E accts \in AuthLists(w) :
           LET signers == (IF userSigned THEN {user} ELSE {})
                          \cup (IF walletSigned THEN {w} ELSE {})
               mn == req[1]
               owners == req[2]
               out == create_wallet(Ledger, signers, user, w, WalletAuthKey(w, user),
                                    accts, mn[1], mn[2], owners, life)
           IN /\ nWallets < env.maxWallets
              /\ Commit(out)
              /\ nWallets' = IF out.res = "Ok" THEN nWallets + 1 ELSE nWallets
              /\ last' = [Last("create_wallet", out, user, user, w, "-")
                            EXCEPT !.args = WalletArgs(signers, mn[1], mn[2],
                                                       owners, accts, life)]
              /\ UNCHANGED <<now, cast, closed, nProposals, env>>

GiveUpOwnership ==
    /\ Ready
    /\ \E user \in Ids, userSigned \in env.signed, w \in env.walletKeys :
          \E k \in AuthProbes(w, user), rest \in GiveUpRests(w) :
           LET signers == IF userSigned THEN {user} ELSE {}
               out == give_up_ownership(Ledger, signers, user, w, k, rest)
           IN /\ Commit(out)
              /\ last' = [Last("give_up_ownership", out, user, user, w, "-")
                            EXCEPT !.rest = IF IsInitialized(wallet[w])
                                               /\ wallet[w].owners = 1
                                            THEN Len(rest) ELSE 0,
                                   !.ballot = Ballot(signers, k, NoBallot.vote_count)]
              /\ UNCHANGED <<now, cast, closed, nProposals, nWallets, env>>

CreateProposal ==
    /\ Ready
    /\ \E user \in Ids, userSigned \in env.signed, w \in env.walletKeys,
            proposalSigned \in env.signed, payload \in env.payloads :
          \E k \in AuthProbes(w, user) :
           LET p == KeyOrder[IF nProposals < Len(KeyOrder) THEN nProposals + 1 ELSE 1]
               signers == (IF userSigned THEN {user} ELSE {})
                          \cup (IF proposalSigned THEN {p} ELSE {})
               out == create_proposal(Ledger, signers, user, w, k, p,
                                      VoteCountKey(w, p), payload, now)
           IN /\ nProposals < env.keys
              /\ Commit(out)
              /\ nProposals' = IF out.res = "Ok" THEN nProposals + 1 ELSE nProposals
              /\ cast' = IF out.res = "Ok"
                         THEN [cast EXCEPT ![p] = [NoVotes EXCEPT ![user] = 1]]
                         ELSE cast
              /\ last' = [Last("create_proposal", out, user, user, w, p)
                            EXCEPT !.prop = ProposalArgs(signers, k, payload)]
              /\ UNCHANGED <<now, closed, nWallets, env>>

Vote ==
    /\ Ready
    /\ \E user \in Ids, userSigned \in env.signed, w \in env.walletKeys,
            p \in Created :
          \E vc \in VoteProbes(w, p) :
          \E k \in AuthProbes(w, user),
             ovf \in (IF IsInitialized(votecount[vc]) /\ votecount[vc].votes = U8 - 1
                      THEN Overflow ELSE {"wrap"}) :
           LET signers == IF userSigned THEN {user} ELSE {}
               out == vote(Ledger, signers, user, w, k, p, vc, now, ovf)
           IN /\ Commit(out)
              /\ cast' = IF out.res = "Ok"
                         THEN [cast EXCEPT ![p][user] = @ + 1]
                         ELSE cast
              /\ last' = [Last("vote", out, user, user, w, p)
                            EXCEPT !.ballot = Ballot(signers, k, vc)]
              /\ UNCHANGED <<now, closed, nProposals, nWallets, env>>

\* signer: who submits the transaction; proposer: the first account passed
CloseProposal ==
    /\ Ready
    /\ \E proposer \in Ids, w \in env.walletKeys, p \in Created,
            rest \in env.rests :
          \E signer \in {proposer} \cup (IF env.probes THEN {"B"} ELSE {}),
             vc \in VoteProbes(w, p),
             ovf \in (IF IsInitialized(wallet[w])
                         /\ wallet[w].owners * wallet[w].m >= U8
                      THEN Overflow ELSE {"wrap"}) :
           LET out == close_proposal(Ledger, {signer}, proposer, w, p, vc, rest,
                                     now, ovf)
           IN /\ Commit(out)
              /\ cast' = IF out.res = "Ok" THEN [cast EXCEPT ![p] = NoVotes] ELSE cast
              /\ closed' = IF out.res = "Ok" THEN closed \cup {p} ELSE closed
              /\ last' = [Last("close_proposal", out, signer, proposer, w, p)
                            EXCEPT !.accounts = IF ReadsAccounts(w, p, vc)
                                                THEN rest ELSE NoAccounts]
              /\ UNCHANGED <<now, nProposals, nWallets, env>>

\* the clock of the ledger moves on
Tick ==
    /\ Ready
    /\ \E t \in env.times : t > now /\ now' = t
    /\ last' = [op |-> "tick", res |-> "Ok", signer |-> "-", user |-> "-",
                w |-> "-", p |-> "-", applied |-> "none", refund |-> 0, rest |-> 0,
                args |-> NoArgs, prop |-> NoProposalArgs, accounts |-> NoAccounts,
                ballot |-> NoBallot]
    /\ UNCHANGED <<wallet, auth, proposal, votecount, token, cast, closed,
                   lifetimeOf, nProposals, nWallets, env>>

Next ==
    \/ CreateWallet
    \/ GiveUpOwnership
    \/ CreateProposal
    \/ Vote
    \/ CloseProposal
    \/ Tick

\* ------------------------------------------------------------------------
\* Instruction data of CreateWallet
\* ------------------------------------------------------------------------
\* the 32 bytes of an identity: each identity has its own byte values
PubkeyBase(id) == CASE id = "A" -> 0 [] id = "B" -> PubkeyBytes [] OTHER -> 2 * PubkeyBytes
Pubkey(id) == [j \in 1..PubkeyBytes |-> PubkeyBase(id) + j - 1]

\* Pubkey::deserialize of 32 bytes
PubkeyDeserialize(bytes) ==
    IF \E id \in Ids : bytes = Pubkey(id)
    THEN CHOOSE id \in Ids : bytes = Pubkey(id)
    ELSE "other"

\* i64::deserialize (borsh: little-endian) of the non-negative values used
RECURSIVE I64Deserialize(_)
I64Deserialize(bytes) ==
    IF bytes = <<>> THEN 0 ELSE Head(bytes) + U8 * I64Deserialize(Tail(bytes))

\* the k low bytes of v, least significant first
RECURSIVE LowBytes(_, _)
LowBytes(v, k) == IF k = 0 THEN <<>> ELSE <<v % U8>> \o LowBytes(v \div U8, k - 1)

\* the eight little-endian bytes of v
I64Bytes(v) == LowBytes(v, 8)

RECURSIVE Concat(_)
Concat(seqs) == IF seqs = <<>> THEN <<>> ELSE Head(seqs) \o Concat(Tail(seqs))

\* the data of a CreateWallet instruction as its layout describes it:
\* variant 0, m, n, the lifetime, and, when listed, the owner count followed
\* by the identities
PackCreateWallet(m, n, proposal_lifetime, listed, owners) ==
    <<0, m, n>> \o I64Bytes(proposal_lifetime)
    \o (IF listed
        THEN <<Len(owners)>> \o Concat([i \in 1..Len(owners) |-> Pubkey(owners[i])])
        ELSE <<>>)

\* while count < owner_count { owners.push(rest[count..count + 32]);
\* count += 32 }; a slice past the end of the data panics
RECURSIVE UnpackOwners(_, _, _, _)
UnpackOwners(rest, owner_count, count, owners) ==
    IF ~(count < owner_count) THEN [ok |-> TRUE, owners |-> owners]
    ELSE IF count + PubkeyBytes > Len(rest) THEN [ok |-> FALSE, owners |-> owners]
    ELSE UnpackOwners(rest, owner_count, count + PubkeyBytes,
                      Append(owners,
                             PubkeyDeserialize(SubSeq(rest, count + 1,
                                                      count + PubkeyBytes))))

\* WalletInstruction::unpack, variant 0
unpack(data) ==
    IF Len(data) < 1 THEN [res |-> "InvalidInstructionData"]
    ELSE IF Len(data) < 3 THEN [res |-> "InvalidInstructionData"]
    ELSE IF Len(data) < 3 + 8 THEN [res |-> "Panic"]
    ELSE
      LET m == data[2]
          n == data[3]
          proposal_lifetime == I64Deserialize(SubSeq(data, 4, 11))
          rest == SubSeq(data, 12, Len(data))
      IN IF Len(rest) = 0
         THEN [res |-> "Ok", m |-> m, n |-> n, owners |-> <<>>,
               proposal_lifetime |-> proposal_lifetime]
         ELSE LET owner_count == Head(rest)
                  o == UnpackOwners(Tail(rest), owner_count, 0, <<>>)
              IN IF ~o.ok THEN [res |-> "Panic"]
                 ELSE [res |-> "Ok", m |-> m, n |-> n, owners |-> o.owners,
                       proposal_lifetime |-> proposal_lifetime]

\* owner lists of up to MaxListed identities, repeats allowed
MaxListed == 3
Listed == UNION {[1..k -> Ids] : k \in 0..MaxListed}

\* env is the command a client packs; the one step unpacks its data
Unpack ==
    /\ last.op = "init"
    /\ last' = [op |-> "unpack", cmd |-> unpack(env.data)]
    /\ UNCHANGED <<wallet, auth, proposal, votecount, token, now, cast, closed,
                   lifetimeOf, nProposals, nWallets, env>>

NextUnpack == Unpack

InitUnpack ==
    \E mn \in {<<2, 3>>, <<100, 100>>}, life \in Lifetimes, listed \in BOOLEAN,
       owners \in Listed :
       /\ ~listed => owners = <<>>
       /\ InitWith([m |-> mn[1], n |-> mn[2], proposal_lifetime |-> life,
                    listed |-> listed, owners |-> owners,
                    data |-> PackCreateWallet(mn[1], mn[2], life, listed, owners)])

\* The threshold expression alone, on the u8 values a WalletConfig can hold:
\* env is the triple (owners, m, n) and the one step evaluates the expression
\* of close_proposal on it.
OwnerCounts == {1, 2, 3, 85, 86, MaxOwners}
Parameters == {1, 2, 3, 100, 128, MaxOwners}

ComputeThreshold ==
    /\ last.op = "init"
    /\ \E ovf \in (IF env.owners * env.m >= U8 THEN Overflow ELSE {"wrap"}) :
         LET t == Threshold(env.owners, env.m, env.n, ovf)
         IN last' = [op |-> "threshold",
                     res |-> IF t.ok THEN "Ok" ELSE "Panic",
                     threshold |-> t.v]
    /\ UNCHANGED <<wallet, auth, proposal, votecount, token, now, cast, closed,
                   lifetimeOf, nProposals, nWallets, env>>

NextThreshold == ComputeThreshold

InitThreshold ==
    \E owners \in OwnerCounts, m \in Parameters, n \in Parameters :
       /\ m <= n
       /\ InitWith([owners |-> owners, m |-> m, n |-> n])

Init == InitWith(EnvOne)

InitTwo == InitWith(EnvTwo)

InitLists == InitWith(EnvLists)

InitFunds == InitWith(EnvFunds)

InitTime == InitWith(EnvTime)

InitApart == InitWith(EnvApart)

Spec == Init /\ [][Next]_vars

SpecTwo == InitTwo /\ [][Next]_vars

SpecLists == InitLists /\ [][Next]_vars

SpecFunds == InitFunds /\ [][Next]_vars

SpecTime == InitTime /\ [][Next]_vars

InitRaise == InitWith(EnvRaise)

SpecRaise == InitRaise /\ [][Next]_vars

SpecApart == InitApart /\ [][Next]_vars

SpecThreshold == InitThreshold /\ [][NextThreshold]_vars

SpecUnpack == InitUnpack /\ [][NextUnpack]_vars

\* ------------------------------------------------------------------------
\* Properties
\* ------------------------------------------------------------------------
\* bit of slot s, read arithmetically (slot s is the (s % 8)-th character of
\* the text of byte s \div 8, counted from the left)
Bit(bitmap, s) == (bitmap[s \div 8] \div Pow2(7 - (s % 8))) % 2 = 1

Slots == 0..(8 * BitmapBytes - 1)

PopCount(bitmap) == Cardinality({s \in Slots : Bit(bitmap, s)})

Floor(a, b) == a \div b

\* the proposal at p is open: both of its records are active
Open(w, p) ==
    IsInitialized(proposal[p]) /\ IsInitialized(votecount[VoteCountKey(w, p)])

\* errors raised by the account and balance validations of a payload
PayloadErrors ==
    {"NotEnoughAccountKeys", "InvalidAccountData", "IncorrectSendAccount",
     "InsufficientFunds", "IncorrectReceiveAccount", "InvalidWalletAuthority",
     "IncorrectProgramId", "MissingRequiredSignature", "InvalidWalletAuth",
     "MaximumOwnersReached", "AccountAlreadyInUse", "TokenInsufficientFunds",
     "TokenMintMismatch", "TokenOwnerMismatch"}

\* the step is a close_proposal of the open proposal p of the active wallet
\* w, submitted by its proposer with the derived vote record
ClosedByProposer(w, p) ==
    /\ last'.op = "close_proposal" /\ last'.w = w /\ last'.p = p
    /\ IsInitialized(wallet[w]) /\ Open(w, p)
    /\ last'.user = proposal[p].proposer
    /\ last'.signer = proposal[p].proposer
    /\ last'.res # "InvalidVoteCount"

LedgerUnchanged == UNCHANGED <<wallet, auth, proposal, votecount, token>>

\* C1: close_proposal by the proposer applies the payload iff, at closure,
\* voteTally >= floor(ownerCount * m / n) and now <= proposedTime + lifetime
\* (the payload's validations passing); otherwise there is no side effect.
C1_PayloadIffQuorumAndUnexpired ==
    [][\A w \in WalletKeys, p \in ProposalKeys :
         ClosedByProposer(w, p) =>
           LET vc == votecount[VoteCountKey(w, p)]
               due == /\ vc.votes >= Floor(wallet[w].owners * wallet[w].m,
                                           wallet[w].n)
                      /\ now <= vc.proposed_time + wallet[w].proposal_lifetime
           IN /\ last'.applied # "none" => due
              /\ due => last'.applied # "none" \/ last'.res \in PayloadErrors
              /\ last'.applied = "none" =>
                   /\ token' = token
                   /\ auth' = auth
                   /\ wallet' = wallet]_vars

\* C2 (as claimed): a close_proposal that applies a payload has
\* voteTally >= m, whatever the wallet's ownerCount is.
C2_AppliedImpliesMVotes ==
    [][\A w \in WalletKeys, p \in ProposalKeys :
         (last'.op = "close_proposal" /\ last'.w = w /\ last'.p = p
          /\ last'.applied # "none")
         => votecount[VoteCountKey(w, p)].votes >= wallet[w].m]_vars

\* C2 (amended): a close_proposal that applies a payload has voteTally at
\* least the threshold computed on u8 values from the current ownerCount,
\* ((ownerCount * m) mod 256) div n; that is at least m when
\* ownerCount >= n and ownerCount * m <= 255.
C2_AppliedImpliesThreshold ==
    [][\A w \in WalletKeys, p \in ProposalKeys :
         (last'.op = "close_proposal" /\ last'.w = w /\ last'.p = p
          /\ last'.applied # "none")
         => LET votes == votecount[VoteCountKey(w, p)].votes
                wd == wallet[w]
            IN /\ votes >= Floor((wd.owners * wd.m) % U8, wd.n)
               /\ (wd.owners >= wd.n /\ wd.owners * wd.m < U8)
                    => votes >= wd.m]_vars

\* a payload was applied on a 2-of-3 wallet holding its three owners
C2_Witness ==
    /\ last.op = "close_proposal" /\ last.applied = "Transfer"
    /\ IsInitialized(wallet["W"])
    /\ wallet["W"].m = 2 /\ wallet["W"].n = 3 /\ wallet["W"].owners = 3

\* C3: an owner identity raises the voteTally of a proposal at most once,
\* across votes interleaved with give_up_ownership and AddOwner executions.
C3_OneVotePerIdentity ==
    \A p \in ProposalKeys, id \in Ids : cast[p][id] <= 1

\* C4: for every open proposal and every slot s, bit s of the vote record is
\* set iff the owner currently bound to slot s has voted on the proposal.
C4_VoteBitIffOwnerVoted ==
    \A w \in WalletKeys, p \in ProposalKeys :
      Open(w, p) =>
        \A s \in Slots :
          Bit(votecount[VoteCountKey(w, p)].vote_record, s)
          <=> \E id \in Ids :
                /\ IsInitialized(auth[WalletAuthKey(w, id)])
                /\ auth[WalletAuthKey(w, id)].id = s
                /\ cast[p][id] >= 1

\* C5: the number of set bits of the owner bitmap of an active wallet is
\* its owner count.
C5_PopCountIsOwners ==
    \A w \in WalletKeys :
      IsInitialized(wallet[w]) =>
        PopCount(wallet[w].owner_identities) = wallet[w].owners

\* an AddOwner was executed on a wallet two owners had left: slot 0 is
\* reused, slot 1 is free, slot 2 is held
C5_Witness ==
    /\ last.applied = "AddOwner"
    /\ IsInitialized(wallet["W"])
    /\ wallet["W"].owners = 2
    /\ wallet["W"].owner_identities[0] = 160

\* C6: no two active WalletAuth records of a wallet carry the same slot.
C6_SlotsDistinct ==
    \A w \in WalletKeys, i \in Ids, j \in Ids :
      (i # j /\ IsInitialized(auth[WalletAuthKey(w, i)])
             /\ IsInitialized(auth[WalletAuthKey(w, j)]))
      => auth[WalletAuthKey(w, i)].id # auth[WalletAuthKey(w, j)].id

\* B holds the reused slot 0 next to C in slot 2
C6_Witness ==
    /\ IsInitialized(auth[WalletAuthKey("W", "B")])
    /\ auth[WalletAuthKey("W", "B")].id = 0
    /\ IsInitialized(auth[WalletAuthKey("W", "C")])
    /\ ~IsInitialized(auth[WalletAuthKey("W", "A")])

\* C7: every active wallet has proposal_lifetime >= 600.
C7_LifetimeAtLeastMin ==
    \A w \in WalletKeys :
      IsInitialized(wallet[w]) => wallet[w].proposal_lifetime >= MinLifetime

\* a ChangeProposalLifetime proposal was executed
C7_Witness ==
    /\ last.applied = "ChangeProposalLifetime"
    /\ IsInitialized(wallet["W"])
    /\ wallet["W"].proposal_lifetime = NewLifetime

\* C8: a close_proposal submitted by an identity other than the recorded
\* proposer does not succeed: it closes nothing and applies no payload.
C8_OnlyProposerCloses ==
    [][\A p \in ProposalKeys :
         (last'.op = "close_proposal" /\ last'.p = p
          /\ IsInitialized(proposal[p])
          /\ last'.signer # proposal[p].proposer)
         => last'.res # "Ok" /\ LedgerUnchanged]_vars

\* C9: closing, as the proposer, a proposal whose records are active and
\* for which now > proposedTime + proposalLifetimeSeconds succeeds, closes
\* and refunds both records and applies no payload.
C9_ExpiredCloseSucceeds ==
    [][\A w \in WalletKeys, p \in ProposalKeys :
         (/\ last'.op = "close_proposal" /\ last'.w = w /\ last'.p = p
          /\ Open(w, p)
          /\ last'.user = proposal[p].proposer
          /\ last'.signer = proposal[p].proposer
          /\ last'.res # "InvalidVoteCount"
          /\ now > votecount[VoteCountKey(w, p)].proposed_time + lifetimeOf[w])
         => /\ last'.res = "Ok"
            /\ last'.applied = "none"
            /\ last'.refund = proposal[p].lamports
                              + votecount[VoteCountKey(w, p)].lamports
            /\ ~Exists(proposal'[p])
            /\ ~Exists(votecount'[VoteCountKey(w, p)])]_vars

\* C10: once a close_proposal has succeeded on a proposal, every later vote
\* or close_proposal on it fails and changes nothing, and no payload is
\* applied for it again.
C10_ClosureIsTerminal ==
    [][\A p \in ProposalKeys :
         (p \in closed /\ last'.p = p
          /\ last'.op \in {"vote", "close_proposal"})
         => /\ last'.res # "Ok"
            /\ last'.applied = "none"
            /\ LedgerUnchanged]_vars

\* a vote or a close_proposal was submitted on a closed proposal
C10_Witness ==
    /\ last.op \in {"vote", "close_proposal"}
    /\ last.p \in closed
    /\ last.res # "Ok"
    /\ ~Exists(proposal[last.p])

\* value moved by the step: some token balance differs
ValueMoved == token' # token

\* the step moved exactly amount from source to destination
MovedExactly(source, destination, amount) ==
    /\ source \in DOMAIN token /\ destination \in DOMAIN token
    /\ source # destination
    /\ token' = [token EXCEPT ![source].amount = @ - amount,
                              ![destination].amount = @ + amount]

\* C11: value under a wallet's authority moves only (1) by the close of an
\* unexpired Transfer proposal that holds voteTally >= floor(ownerCount*m/n),
\* which moves exactly the recorded amount of the recorded mint to the
\* recorded destination, or (2) by the sweep of a give_up_ownership called
\* when ownerCount was 1; no other step moves value.
C11_ValueLeavesTwoWays ==
    [][ValueMoved =>
          \/ \E w \in WalletKeys, p \in ProposalKeys :
               /\ last'.op = "close_proposal" /\ last'.res = "Ok"
               /\ last'.w = w /\ last'.p = p
               /\ IsInitialized(wallet[w]) /\ Open(w, p)
               /\ proposal[p].proposal.type = "Transfer"
               /\ LET vc == votecount[VoteCountKey(w, p)]
                      payload == proposal[p].proposal
                  IN /\ now <= vc.proposed_time + wallet[w].proposal_lifetime
                     /\ vc.votes >= Floor(wallet[w].owners * wallet[w].m,
                                          wallet[w].n)
                     /\ \E source \in DOMAIN token :
                          /\ token[source].owner = Authority(w)
                          /\ token[source].mint = payload.token_mint
                          /\ MovedExactly(source, payload.receive_account,
                                          payload.amount)
          \/ \E w \in WalletKeys :
               /\ last'.op = "give_up_ownership" /\ last'.res = "Ok"
               /\ last'.w = w
               /\ IsInitialized(wallet[w]) /\ wallet[w].owners = 1]_vars

\* the step is a give_up_ownership of w signed by its sole remaining owner,
\* with the derived WalletAuth
SoleOwnerGivesUp(w) ==
    /\ last'.op = "give_up_ownership" /\ last'.w = w
    /\ last'.res \notin {"MissingRequiredSignature", "InvalidWalletAuth"}
    /\ IsInitialized(wallet[w]) /\ wallet[w].owners = 1
    /\ IsInitialized(auth[WalletAuthKey(w, last'.user)])

\* C12: give_up_ownership by the sole remaining owner with no authority
\* address and no fund pairs succeeds, deactivates and refunds the caller's
\* WalletAuth and the WalletConfig, and transfers nothing.
C12_SoleOwnerBareExit ==
    [][\A w \in WalletKeys :
         (SoleOwnerGivesUp(w) /\ last'.rest = 0)
         => /\ last'.res = "Ok"
            /\ ~Exists(wallet'[w])
            /\ ~Exists(auth'[WalletAuthKey(w, last'.user)])
            /\ last'.refund = wallet[w].lamports
                              + auth[WalletAuthKey(w, last'.user)].lamports
            /\ token' = token]_vars

\* the accounts of a create_wallet are authenticated and correctly derived:
\* caller and wallet keypair signed, one derived WalletAuth address per owner
WellFormed(a, user, w) ==
    /\ {user, w} \subseteq a.signers
    /\ Len(a.accts) = Len(a.owners)
    /\ \A i \in 1..Len(a.owners) : a.accts[i] = WalletAuthKey(w, a.owners[i])

ValidParameters(a) ==
    /\ 1 <= a.m /\ a.m <= a.n /\ a.n <= MaxOwners
    /\ a.proposal_lifetime >= MinLifetime

\* no account exists at the addresses to create, and no identity is named
\* twice among the caller and the other owners
FreshAddresses(a, user, w) ==
    /\ ~Exists(wallet[w])
    /\ ~Exists(auth[WalletAuthKey(w, user)])
    /\ \A i \in 1..Len(a.owners) :
         /\ ~Exists(auth[WalletAuthKey(w, a.owners[i])])
         /\ a.owners[i] # user
         /\ \A j \in 1..Len(a.owners) : i # j => a.owners[i] # a.owners[j]
    /\ Len(a.owners) < MaxOwners

\* create_wallet with m = 0 or m > n fails InvalidWalletParameters and
\* changes nothing
RejectsBadParameters ==
    LET a == last'.args
    IN (a.m = 0 \/ a.m > a.n)
       => last'.res = "InvalidWalletParameters" /\ LedgerUnchanged

\* C13 (as claimed): create_wallet with m = 0 or m > n fails with
\* InvalidWalletParameters and creates nothing; with 1 <= m <= n <= 255,
\* lifetime >= 600 and derived, authenticated accounts it succeeds.
C13_ParametersDecide ==
    [][last'.op = "create_wallet" =>
         /\ RejectsBadParameters
         /\ (ValidParameters(last'.args)
             /\ WellFormed(last'.args, last'.user, last'.w))
            => last'.res = "Ok"]_vars

\* C13 (amended): the same, the success being promised only when no account
\* exists yet at the WalletConfig address or at a WalletAuth address to
\* create, and the caller and the other owners are pairwise distinct (at most
\* 254 other owners).
C13_ParametersDecideFresh ==
    [][last'.op = "create_wallet" =>
         /\ RejectsBadParameters
         /\ (ValidParameters(last'.args)
             /\ WellFormed(last'.args, last'.user, last'.w)
             /\ FreshAddresses(last'.args, last'.user, last'.w))
            => last'.res = "Ok"]_vars

\* a create_wallet with valid parameters and fresh addresses has succeeded
C13_Witness ==
    /\ last.op = "create_wallet" /\ last.res = "Ok"
    /\ last.args.m = 2 /\ last.args.n = 3
    /\ last.args.owners = <<"B", "C">>
    /\ IsInitialized(wallet["W"])

\* the checks of create_proposal that precede the duration test pass:
\* caller and proposal keypair signed, wallet and WalletAuth exist, the
\* WalletAuth address is the caller's
PassesEarlierChecks(a, user, w, p) ==
    /\ {user, p} \subseteq a.signers
    /\ Exists(wallet[w])
    /\ a.wallet_auth = WalletAuthKey(w, user)
    /\ Exists(auth[a.wallet_auth])

\* C14: a lifetime below 600 is rejected with TooShortLifetime and nothing is
\* created, by create_wallet (its m, n being valid) and by create_proposal
\* with a ChangeProposalLifetime payload (the caller being an authenticated
\* owner); a lifetime of exactly 600 is accepted by both.
C14_LifetimeFloor ==
    [][/\ last'.op = "create_wallet" =>
            LET a == last'.args
            IN /\ a.proposal_lifetime < 600 => last'.res # "Ok" /\ LedgerUnchanged
               /\ (a.proposal_lifetime < 600 /\ 1 <= a.m /\ a.m <= a.n)
                  => last'.res = "TooShortLifetime"
               /\ (a.proposal_lifetime = 600 /\ ValidParameters(a)
                   /\ WellFormed(a, last'.user, last'.w)
                   /\ FreshAddresses(a, last'.user, last'.w))
                  => /\ last'.res = "Ok"
                     /\ wallet'[last'.w].proposal_lifetime = 600
       /\ (last'.op = "create_proposal"
           /\ last'.prop.new_proposal.type = "ChangeProposalLifetime") =>
            LET a == last'.prop
                d == a.new_proposal.duration
                passes == PassesEarlierChecks(a, last'.user, last'.w, last'.p)
            IN /\ d < 600 => last'.res # "Ok" /\ LedgerUnchanged
               /\ (d < 600 /\ passes) => last'.res = "TooShortLifetime"
               /\ (d = 600 /\ passes /\ ~Exists(proposal[last'.p])
                   /\ ~Exists(votecount[VoteCountKey(last'.w, last'.p)])
                   /\ IsInitialized(auth[a.wallet_auth]))
                  => /\ last'.res = "Ok"
                     /\ proposal'[last'.p].proposal.duration = 600]_vars

\* a create_proposal with a too short duration was refused
C14_Witness ==
    /\ last.op = "create_proposal" /\ last.res = "TooShortLifetime"
    /\ last.prop.new_proposal.duration = MinLifetime - 1
    /\ IsInitialized(wallet["W"])

\* the open proposal p of w is unexpired and holds fewer votes than
\* floor(ownerCount * m / n)
BelowQuorum(w, p) ==
    LET vc == votecount[VoteCountKey(w, p)]
    IN /\ now <= vc.proposed_time + wallet[w].proposal_lifetime
       /\ vc.votes < Floor(wallet[w].owners * wallet[w].m, wallet[w].n)

\* C15: a close_proposal by the proposer on an unexpired proposal with
\* voteTally < floor(ownerCount * m / n) fails InsufficientVotes and leaves
\* the Proposal, the VoteCount and every balance as they were.
C15_BelowQuorumStaysOpen ==
    [][\A w \in WalletKeys, p \in ProposalKeys :
         (ClosedByProposer(w, p) /\ BelowQuorum(w, p))
         => /\ last'.res = "InsufficientVotes"
            /\ LedgerUnchanged
            /\ Open(w, p)']_vars

VotedByOwner(user, w, p) ==
    /\ last'.op = "vote" /\ last'.user = user /\ last'.w = w /\ last'.p = p
    /\ last'.ballot = Ballot({user}, WalletAuthKey(w, user), VoteCountKey(w, p))
    /\ IsInitialized(wallet[w])
    /\ IsInitialized(auth[WalletAuthKey(w, user)])
    /\ Open(w, p)
    /\ now <= votecount[VoteCountKey(w, p)].proposed_time
              + wallet[w].proposal_lifetime

\* C17: a vote of an active owner with slot s on an unexpired open proposal
\* fails AlreadyVoted and leaves every record unchanged when bit s of the
\* vote record is set; otherwise it succeeds, sets bit s, changes no other
\* bit and adds exactly 1 to the tally.
C17_VoteSetsOneBit ==
    [][\A user \in Ids, w \in WalletKeys, p \in ProposalKeys :
         VotedByOwner(user, w, p)
         => LET s == auth[WalletAuthKey(w, user)].id
                vc == VoteCountKey(w, p)
            IN IF Bit(votecount[vc].vote_record, s)
               THEN /\ last'.res = "AlreadyVoted"
                    /\ LedgerUnchanged
               ELSE /\ last'.res = "Ok"
                    /\ IsInitialized(votecount'[vc])
                    /\ votecount'[vc].votes = votecount[vc].votes + 1
                    /\ votecount'[vc].proposed_time = votecount[vc].proposed_time
                    /\ \A t \in Slots :
                         Bit(votecount'[vc].vote_record, t)
                         <=> (t = s \/ Bit(votecount[vc].vote_record, t))]_vars

\* an owner other than the proposer has just voted: two bits are set, the
\* voter's among them, and the tally is 2
C17_Witness ==
    /\ last.op = "vote" /\ last.res = "Ok"
    /\ IsInitialized(auth[WalletAuthKey(last.w, last.user)])
    /\ auth[WalletAuthKey(last.w, last.user)].id > 0
    /\ IsInitialized(votecount[VoteCountKey(last.w, last.p)])
    /\ votecount[VoteCountKey(last.w, last.p)].votes = 2
    /\ PopCount(votecount[VoteCountKey(last.w, last.p)].vote_record) = 2
    /\ Bit(votecount[VoteCountKey(last.w, last.p)].vote_record,
           auth[WalletAuthKey(last.w, last.user)].id)

\* bit j of the bitmap counted from the low end: bit j % 8 of byte j / 8
LowBit(bitmap, j) == (bitmap[j \div 8] \div Pow2(j % 8)) % 2 = 1

\* the WalletAuth records the step created
CreatedAuths == {k \in DOMAIN auth : IsInitialized(auth'[k]) /\ ~IsInitialized(auth[k])}

\* a successful create_wallet created one active WalletAuth per owner and no
\* other, the caller at slot 0 and owners[i] at slot i in input order
\* (owners is indexed from 1), and a WalletConfig counting them
OwnersSeated(a, user, w) ==
    /\ CreatedAuths = {WalletAuthKey(w, user)}
                      \cup {WalletAuthKey(w, a.owners[i]) : i \in 1..Len(a.owners)}
    /\ Cardinality(CreatedAuths) = 1 + Len(a.owners)
    /\ auth'[WalletAuthKey(w, user)] = WalletAuth(user, w, 0)
    /\ \A i \in 1..Len(a.owners) :
         auth'[WalletAuthKey(w, a.owners[i])] = WalletAuth(a.owners[i], w, i)
    /\ \A k \in DOMAIN auth : IsInitialized(auth[k]) => auth'[k] = auth[k]
    /\ IsInitialized(wallet'[w])
    /\ wallet'[w].owners = 1 + Len(a.owners)

LowestFreeSlot(bitmap) ==
    CHOOSE s \in Slots : ~Bit(bitmap, s) /\ \A t \in 0..(s - 1) : Bit(bitmap, t)

\* C19: a close_proposal that executes AddOwner gives the new owner the
\* lowest slot whose bit is unset in the owner bitmap, sets that bit and no
\* other, adds 1 to the owner count and creates an active WalletAuth of the
\* new owner with that slot.
C19_AddOwnerTakesLowestFreeSlot ==
    [][(last'.op = "close_proposal" /\ last'.applied = "AddOwner")
         => LET w == last'.w
                new == proposal[last'.p].proposal.user
                k == WalletAuthKey(w, new)
                s == LowestFreeSlot(wallet[w].owner_identities)
            IN /\ ~IsInitialized(auth[k])
               /\ auth'[k] = WalletAuth(new, w, s)
               /\ IsInitialized(wallet'[w])
               /\ wallet'[w].owners = wallet[w].owners + 1
               /\ \A t \in Slots :
                    Bit(wallet'[w].owner_identities, t)
                    <=> (t = s \/ Bit(wallet[w].owner_identities, t))]_vars

\* B, added again after giving up slot 1, holds slot 1 while slot 2 is held
\* and slot 3 was never used
C19_Witness ==
    /\ last.op = "close_proposal" /\ last.applied = "AddOwner"
    /\ IsInitialized(auth[WalletAuthKey("W", "B")])
    /\ auth[WalletAuthKey("W", "B")].id = 1
    /\ IsInitialized(auth[WalletAuthKey("W", "C")])
    /\ auth[WalletAuthKey("W", "C")].id = 2
    /\ ~Bit(wallet["W"].owner_identities, 3)

\* user holds an active WalletAuth of the active wallet w
ActiveOwner(user, w) ==
    IsInitialized(wallet[w]) /\ IsInitialized(auth[WalletAuthKey(w, user)])

\* C20: create_proposal succeeds only for a caller who is an active owner
\* of the wallet, and then creates in the one step an active Proposal with
\* proposer = caller and an active VoteCount with proposed_time = now,
\* votes = 1 and exactly the bit of the caller's slot set; a caller without
\* an active WalletAuth creates nothing.
C20_ProposalSeededByOwner ==
    [][last'.op = "create_proposal" =>
         LET user == last'.user
             w == last'.w
             p == last'.p
             vc == VoteCountKey(w, p)
         IN /\ last'.res = "Ok" =>
                 /\ ActiveOwner(user, w)
                 /\ ~Exists(proposal[p]) /\ ~Exists(votecount[vc])
                 /\ proposal'[p] = Proposal(w, user, last'.prop.new_proposal)
                 /\ IsInitialized(votecount'[vc])
                 /\ votecount'[vc].proposed_time = now
                 /\ votecount'[vc].votes = 1
                 /\ \A t \in Slots :
                      Bit(votecount'[vc].vote_record, t)
                      <=> t = auth[WalletAuthKey(w, user)].id
                 /\ UNCHANGED <<wallet, auth, token>>
            /\ ~IsInitialized(auth[WalletAuthKey(w, user)]) =>
                 /\ last'.res # "Ok"
                 /\ LedgerUnchanged
            /\ last'.res # "Ok" => LedgerUnchanged]_vars

\* the owner of slot 2 has just opened a proposal: one vote, bit 2 alone
C20_Witness ==
    /\ last.op = "create_proposal" /\ last.res = "Ok"
    /\ IsInitialized(auth[WalletAuthKey(last.w, last.user)])
    /\ auth[WalletAuthKey(last.w, last.user)].id = 2
    /\ IsInitialized(proposal[last.p])
    /\ proposal[last.p].proposer = last.user
    /\ votecount[VoteCountKey(last.w, last.p)].votes = 1
    /\ votecount[VoteCountKey(last.w, last.p)].vote_record[0] = 32

\* the step is a give_up_ownership of user on wallet w, signed and with the
\* derived WalletAuth address
GaveUp(user, w) ==
    /\ last'.op = "give_up_ownership" /\ last'.user = user /\ last'.w = w
    /\ last'.ballot = Ballot({user}, WalletAuthKey(w, user), NoBallot.vote_count)

\* C21: give_up_ownership by an active owner of a wallet with more than one
\* owner closes and refunds the caller's WalletAuth, clears the caller's
\* slot bit and no other, takes 1 from owners and keeps the wallet active
\* with m, n, proposal_lifetime and every other WalletAuth as they were; a
\* caller who is not an active owner changes nothing.
C21_GiveUpClearsOneSeat ==
    [][\A user \in Ids, w \in WalletKeys :
         LET k == WalletAuthKey(w, user)
         IN /\ (GaveUp(user, w) /\ ActiveOwner(user, w) /\ wallet[w].owners > 1)
               => /\ last'.res = "Ok"
                  /\ ~Exists(auth'[k])
                  /\ last'.refund = auth[k].lamports
                  /\ IsInitialized(wallet'[w])
                  /\ wallet'[w].owners = wallet[w].owners - 1
                  /\ wallet'[w].m = wallet[w].m
                  /\ wallet'[w].n = wallet[w].n
                  /\ wallet'[w].proposal_lifetime = wallet[w].proposal_lifetime
                  /\ wallet'[w].lamports = wallet[w].lamports
                  /\ \A t \in Slots :
                       Bit(wallet'[w].owner_identities, t)
                       <=> (t # auth[k].id /\ Bit(wallet[w].owner_identities, t))
                  /\ Bit(wallet[w].owner_identities, auth[k].id)
                  /\ \A j \in DOMAIN auth : j # k => auth'[j] = auth[j]
                  /\ UNCHANGED <<proposal, votecount, token>>
            /\ (last'.op = "give_up_ownership" /\ last'.user = user
                /\ last'.w = w /\ ~ActiveOwner(user, w))
               => last'.res # "Ok" /\ LedgerUnchanged]_vars

\* B, at slot 1 of a wallet of three, has just given up: two owners are
\* left and byte 0 of the bitmap is 10100000
C21_Witness ==
    /\ last.op = "give_up_ownership" /\ last.res = "Ok" /\ last.user = "B"
    /\ last.refund = 1
    /\ IsInitialized(wallet["W"])
    /\ wallet["W"].owners = 2
    /\ wallet["W"].owner_identities[0] = 160
    /\ ~Exists(auth[WalletAuthKey("W", "B")])

\* C22: the threshold close_proposal compares the votes with is
\* floor(owners * m / n) for every 1 <= m <= n <= 255 and 1 <= owners <= 255,
\* also where owners * m exceeds 255.
C22_ThresholdIsFloor ==
    last.op = "threshold"
    => /\ last.res = "Ok"
       /\ last.threshold = Floor(env.owners * env.m, env.n)

\* the step is a vote of user, an active owner of the active wallet w, on
\* the open proposal p, signed and with the derived accounts, at any time
VoteOfOwner(user, w, p) ==
    /\ last'.op = "vote" /\ last'.user = user /\ last'.w = w /\ last'.p = p
    /\ last'.ballot = Ballot({user}, WalletAuthKey(w, user), VoteCountKey(w, p))
    /\ ActiveOwner(user, w)
    /\ Open(w, p)

\* now > proposedTime + proposalLifetimeSeconds, on the records as they are
PastDeadline(w, p) ==
    now > votecount[VoteCountKey(w, p)].proposed_time + wallet[w].proposal_lifetime

\* the close took the expired path: it succeeded and applied nothing
ClosedAsExpired == last'.res = "Ok" /\ last'.applied = "none"

\* C23: a vote of an active owner fails ProposalExpired, the VoteCount
\* unchanged, exactly when now > proposed_time + proposal_lifetime (at
\* equality it is accepted or refused only as AlreadyVoted), and a
\* close_proposal by the proposer takes the expired path under exactly the
\* same condition.
C23_StrictDeadline ==
    [][\A w \in WalletKeys, p \in ProposalKeys :
         /\ \A user \in Ids :
              VoteOfOwner(user, w, p)
              => /\ last'.res = "ProposalExpired" <=> PastDeadline(w, p)
                 /\ last'.res = "ProposalExpired" => LedgerUnchanged
                 /\ ~PastDeadline(w, p) => last'.res \in {"Ok", "AlreadyVoted"}
         /\ ClosedByProposer(w, p)
            => (ClosedAsExpired <=> PastDeadline(w, p))]_vars

\* a vote was accepted at the very deadline of the proposal
C23_Witness ==
    /\ last.op = "vote" /\ last.res = "Ok"
    /\ IsInitialized(votecount[VoteCountKey(last.w, last.p)])
    /\ IsInitialized(wallet[last.w])
    /\ now = votecount[VoteCountKey(last.w, last.p)].proposed_time
             + wallet[last.w].proposal_lifetime
    /\ now > 0

\* the outcome of a signed vote of first followed, when it succeeds, by a
\* signed vote of second, on the ledger as it is
VoteThenVote(first, second, w, p) ==
    LET one == vote(Ledger, {first}, first, w, WalletAuthKey(w, first), p,
                    VoteCountKey(w, p), now, "wrap")
    IN IF one.res # "Ok" THEN one
       ELSE vote(one.L, {second}, second, w, WalletAuthKey(w, second), p,
                 VoteCountKey(w, p), now, "wrap")

\* user is an active owner of w whose slot bit is unset in the vote record
\* of the open, unexpired proposal p
CanVote(user, w, p) ==
    /\ ActiveOwner(user, w)
    /\ Open(w, p)
    /\ ~PastDeadline(w, p)
    /\ ~Bit(votecount[VoteCountKey(w, p)].vote_record,
            auth[WalletAuthKey(w, user)].id)

\* C24: for two distinct active owners whose slot bits are unset on an
\* unexpired open proposal, the two votes succeed in either order and leave
\* the same ledger: both bits added, no other bit changed, the tally
\* increased by 2.
C24_VotesCommute ==
    \A w \in WalletKeys, p \in ProposalKeys, u \in Ids, v \in Ids :
       (u # v /\ CanVote(u, w, p) /\ CanVote(v, w, p))
       => LET uv == VoteThenVote(u, v, w, p)
              vu == VoteThenVote(v, u, w, p)
              vc == VoteCountKey(w, p)
          IN /\ uv.res = "Ok" /\ vu.res = "Ok"
             /\ uv.L = vu.L
             /\ uv.L.votecount[vc].votes = votecount[vc].votes + 2
             /\ \A t \in Slots :
                  Bit(uv.L.votecount[vc].vote_record, t)
                  <=> \/ t = auth[WalletAuthKey(w, u)].id
                      \/ t = auth[WalletAuthKey(w, v)].id
                      \/ Bit(votecount[vc].vote_record, t)
             /\ [uv.L EXCEPT !.votecount = votecount] = Ledger

\* the two other owners have voted one after the other on a proposal of A:
\* three votes, the three leading bits
C24_Witness ==
    /\ last.op = "vote" /\ last.res = "Ok"
    /\ IsInitialized(votecount[VoteCountKey(last.w, last.p)])
    /\ votecount[VoteCountKey(last.w, last.p)].votes = 3
    /\ votecount[VoteCountKey(last.w, last.p)].vote_record[0] = 224
    /\ cast[last.p] = [id \in Ids |-> 1]

\* the step is a vote or a close_proposal that names wallet w together
\* with the open proposal p of another wallet
NamesForeignProposal(w, p) ==
    /\ last'.op \in {"vote", "close_proposal"}
    /\ last'.w = w /\ last'.p = p
    /\ IsInitialized(proposal[p])
    /\ proposal[p].wallet # w

\* the records and the holding of wallet w are left as they were
WalletUntouched(w) ==
    /\ wallet'[w] = wallet[w]
    /\ \A id \in Ids : auth'[WalletAuthKey(w, id)] = auth[WalletAuthKey(w, id)]
    /\ token'[Holding(w)] = token[Holding(w)]

\* C25: a vote or close_proposal naming a wallet other than the one the
\* proposal was created for fails and changes no record; the tally of a
\* proposal of w is raised only by a vote of an active owner of w; and a
\* close_proposal that executes a proposal of w leaves the WalletConfig, the
\* owner records and the holding of every other wallet unchanged.
C25_WalletsApart ==
    [][\A w \in WalletKeys, p \in ProposalKeys :
         /\ NamesForeignProposal(w, p)
            => last'.res # "Ok" /\ LedgerUnchanged
         /\ (/\ IsInitialized(proposal[p]) /\ proposal[p].wallet = w
             /\ IsInitialized(votecount[VoteCountKey(w, p)])
             /\ IsInitialized(votecount'[VoteCountKey(w, p)])
             /\ votecount'[VoteCountKey(w, p)].votes
                > votecount[VoteCountKey(w, p)].votes)
            => /\ last'.op = "vote" /\ last'.w = w /\ last'.p = p
               /\ ActiveOwner(last'.user, w)
         /\ (/\ last'.op = "close_proposal" /\ last'.p = p
             /\ last'.applied # "none"
             /\ proposal[p].wallet = w)
            => \A v \in WalletKeys \ {w} : WalletUntouched(v)]_vars

\* an active owner of one wallet, not an owner of the other, has named
\* their own wallet to vote on the open proposal of the other and was
\* refused
C25_Witness ==
    /\ last.op = "vote" /\ last.res # "Ok"
    /\ IsInitialized(proposal[last.p])
    /\ proposal[last.p].wallet # last.w
    /\ IsInitialized(wallet[proposal[last.p].wallet])
    /\ ActiveOwner(last.user, last.w)
    /\ ~ActiveOwner(last.user, proposal[last.p].wallet)

\* C26: unpacking a CreateWallet whose data lists k >= 1 identities after
\* the owner count k gives owners equal to those k identities in order; data
\* that ends after the lifetime gives an empty list.
C26_UnpackKeepsOwners ==
    last.op = "unpack"
    => /\ last.cmd.res = "Ok"
       /\ ~env.listed => last.cmd.owners = <<>>
       /\ (env.listed /\ Len(env.owners) >= 1) => last.cmd.owners = env.owners

\* C27: every active VoteCount has votes equal to the number of bits set
\* in its vote_record, and at least 1.
C27_VotesArePopCount ==
    \A k \in DOMAIN votecount :
       IsInitialized(votecount[k])
       => /\ votecount[k].votes = PopCount(votecount[k].vote_record)
          /\ votecount[k].votes >= 1

\* all three owners have voted on P1: three bits are set and the tally is 3
C27_Witness ==
    /\ last.op = "vote" /\ last.res = "Ok"
    /\ IsInitialized(votecount[VoteCountKey("W", "P1")])
    /\ votecount[VoteCountKey("W", "P1")].votes = 3
    /\ votecount[VoteCountKey("W", "P1")].vote_record[0] = 224

\* the slots held by the active WalletAuth records of wallet w
ActiveSlots(w) ==
    {auth[k].id : k \in {j \in AuthKeys : j[1] = w /\ IsInitialized(auth[j])}}

\* the slots whose bit is set in a bitmap, collected byte by byte
SetBits(bitmap) ==
    UNION {{8 * i + j : j \in {b \in 0..7 : Bit(bitmap, 8 * i + b)}} :
             i \in {c \in DOMAIN bitmap : bitmap[c] # 0}}

\* C28: while a wallet is active, the slots of its active WalletAuth records
\* are exactly the bits set in owner_identities and owners >= 1; and a step
\* deactivates an active wallet exactly when it leaves the wallet without
\* an active WalletAuth.
C28_SeatsAreOwnerBits ==
    /\ [](\A w \in WalletKeys :
            IsInitialized(wallet[w])
            => /\ ActiveSlots(w) = SetBits(wallet[w].owner_identities)
               /\ wallet[w].owners >= 1)
    /\ [][\A w \in WalletKeys :
            IsInitialized(wallet[w])
            => (ActiveSlots(w)' = {} <=> ~IsInitialized(wallet'[w]))]_vars

\* the last owner has just given up: the wallet and every WalletAuth of it
\* are gone together
C28_Witness ==
    /\ last.op = "give_up_ownership" /\ last.res = "Ok" /\ last.w = "W"
    /\ last.refund = 2
    /\ ~Exists(wallet["W"])
    /\ ActiveSlots("W") = {}
    /\ nWallets = 1

\* C29: give_up_ownership leaves every Proposal and VoteCount as it was, so
\* the vote of an owner who has left stays in votes and vote_record; and a
\* close_proposal by the proposer of an unexpired open proposal compares
\* those votes with the threshold of the owners the wallet has left: it
\* applies the payload only at or above it and fails InsufficientVotes only
\* below it.
C29_DepartedVoteCounts ==
    [][/\ last'.op = "give_up_ownership" => UNCHANGED <<proposal, votecount>>
       /\ \A w \in WalletKeys, p \in ProposalKeys :
            (/\ ClosedByProposer(w, p)
             /\ now <= votecount[VoteCountKey(w, p)].proposed_time
                       + wallet[w].proposal_lifetime)
            => LET votes == votecount[VoteCountKey(w, p)].votes
                   wd == wallet[w]
                   threshold == Floor((wd.owners * wd.m) % U8, wd.n)
               IN /\ last'.applied # "none" => votes >= threshold
                  /\ last'.res = "InsufficientVotes" => votes < threshold
                  /\ (votes >= threshold /\ wd.owners * wd.m < U8)
                     => (last'.applied # "none" \/ last'.res \in PayloadErrors)]_vars

\* A proposed on a 2-of-3 wallet and has left it: the proposal still holds
\* A's vote, and two owners are left
C29_Witness ==
    /\ last.op = "give_up_ownership" /\ last.res = "Ok" /\ last.user = "A"
    /\ ~Exists(auth[WalletAuthKey("W", "A")])
    /\ IsInitialized(wallet["W"]) /\ wallet["W"].owners = 2
    /\ Open("W", "P1")
    /\ proposal["P1"].proposer = "A"
    /\ votecount[VoteCountKey("W", "P1")].votes = 1
    /\ Bit(votecount[VoteCountKey("W", "P1")].vote_record, 0)

\* the step is a close_proposal that executed the lifetime change p of w
LifetimeChanged(w, p) ==
    /\ last'.op = "close_proposal" /\ last'.w = w /\ last'.p = p
    /\ last'.applied = "ChangeProposalLifetime"

\* the result of a signed vote of user on q with the derived accounts, on
\* the ledger L at the present time
VoteResult(L, user, w, q) ==
    vote(L, {user}, user, w, WalletAuthKey(w, user), q, VoteCountKey(w, q),
         now, "wrap").res

\* C30: expiry is evaluated against the proposal_lifetime the wallet holds
\* at the time of the vote: executing a ChangeProposalLifetime writes the
\* new duration and leaves every other open proposal of the wallet open with
\* its proposed_time, so a vote on such a proposal fails ProposalExpired
\* before the execution exactly when now is past proposed_time + the old
\* lifetime and after it exactly when now is past proposed_time + the new
\* one.
C30_RaisedLifetimeReopens ==
    [][\A w \in WalletKeys, p \in ProposalKeys :
         LifetimeChanged(w, p)
         => /\ wallet'[w].proposal_lifetime = proposal[p].proposal.duration
            /\ \A q \in ProposalKeys \ {p} :
                 Open(w, q)
                 => LET vc == VoteCountKey(w, q)
                    IN /\ votecount'[vc] = votecount[vc]
                       /\ proposal'[q] = proposal[q]
                       /\ \A user \in Ids :
                            ActiveOwner(user, w)
                            => /\ VoteResult(Ledger, user, w, q) = "ProposalExpired"
                                  <=> now > votecount[vc].proposed_time
                                            + wallet[w].proposal_lifetime
                               /\ VoteResult(Ledger', user, w, q) = "ProposalExpired"
                                  <=> now > votecount[vc].proposed_time
                                            + proposal[p].proposal.duration]_vars

\* P1 was made at 0 under a lifetime of MinLifetime and was past its
\* deadline at MinLifetime + 1; the lifetime change P2 has just been
\* executed at that time and P1 is within its deadline again
C30_Witness ==
    /\ last.op = "close_proposal" /\ last.p = "P2"
    /\ last.applied = "ChangeProposalLifetime"
    /\ now = MinLifetime + 1
    /\ Open("W", "P1")
    /\ votecount[VoteCountKey("W", "P1")].proposed_time = 0
    /\ wallet["W"].proposal_lifetime = NewLifetime
    /\ VoteResult(Ledger, "B", "W", "P1") = "Ok"

\* the step is a close_proposal naming the open, unexpired AddOwner
\* proposal p of the active wallet w, whose user is an active owner of w
ClosesAddOfOwner(w, p) ==
    /\ last'.op = "close_proposal" /\ last'.w = w /\ last'.p = p
    /\ IsInitialized(wallet[w]) /\ Open(w, p)
    /\ proposal[p].proposal.type = "AddOwner"
    /\ ActiveOwner(proposal[p].proposal.user, w)
    /\ ~PastDeadline(w, p)

\* C31: a close_proposal before expiry of an AddOwner proposal whose user is
\* an active owner of the wallet fails, applies nothing and leaves the
\* wallet's owners and owner_identities, every WalletAuth, the Proposal and
\* the VoteCount as they were; with quorum, the proposer and the payer
\* signing and the derived WalletAuth address it fails AccountAlreadyInUse.
C31_ActiveOwnerNeverAdded ==
    [][\A w \in WalletKeys, p \in ProposalKeys :
         ClosesAddOfOwner(w, p)
         => /\ last'.res # "Ok"
            /\ last'.applied = "none"
            /\ LedgerUnchanged
            /\ Open(w, p)'
            /\ (/\ ClosedByProposer(w, p)
                /\ ~BelowQuorum(w, p)
                /\ wallet[w].owners * wallet[w].m < U8
                /\ last'.accounts.kind = "AddOwner"
                /\ last'.accounts.payer = last'.signer
                /\ last'.accounts.wallet_auth
                     = WalletAuthKey(w, proposal[p].proposal.user))
               => last'.res = "AccountAlreadyInUse"]_vars

\* the proposer of an AddOwner of B, who holds a seat of the full 2-of-3
\* wallet, closed it with two votes and the call failed: the proposal is
\* still open and the wallet has its three owners
C31_Witness ==
    /\ last.op = "close_proposal" /\ last.res = "AccountAlreadyInUse"
    /\ last.w = "W" /\ last.p = "P1"
    /\ Open("W", "P1")
    /\ proposal["P1"].proposal = AddOwner("B")
    /\ ActiveOwner("B", "W")
    /\ wallet["W"].owners = 3 /\ wallet["W"].m = 2 /\ wallet["W"].n = 3
    /\ wallet["W"].owner_identities[0] = 224
    /\ votecount[VoteCountKey("W", "P1")].votes >= 2

====
